---- MODULE Spec2Model ----
(***************************************************************************)
(* A model of yard/data.py: BinaryConfusionMatrix (the 2 x 2 count         *)
(* structure), BinaryClassifierData (the sorted, normalized dataset),      *)
(* get_confusion_matrix (single threshold lookup) and                      *)
(* iter_confusion_matrices (the incremental threshold sweep).              *)
(*                                                                         *)
(* Scores and thresholds are real numbers in the program.  Here they are   *)
(* integers counting ticks of 1/Unit, so that the thresholds i/n of the    *)
(* integer argument are exact; float('inf') is a number above every score  *)
(* and every threshold the model draws.                                    *)
(***************************************************************************)
EXTENDS Integers, Sequences, FiniteSets, TLC

\* ----- bounds of the model -----
MaxPoints == 3      \* longest raw input given to BinaryClassifierData
MaxCount == 2       \* largest integer given as the thresholds argument
MaxThr == 2         \* longest explicit collection of thresholds
MaxDim == 3         \* most rows, and most columns of a row, of a grid

\* ----- the values the inputs are drawn from -----
RECURSIVE Factorial(_)
Factorial(k) == IF k <= 1 THEN 1 ELSE k * Factorial(k - 1)

\* 1.0 in ticks: every i/n with 0 <= i < n <= MaxCount is a whole number of ticks
Unit == Factorial(MaxCount)

ScoreVals == -1 .. 1
RawLabels == {-1, 0, 1}
ThrVals == 0 .. 2
LookupVals == -2 .. 2
Inf == Unit + 3

RawPoints == ScoreVals \X RawLabels

SeqsUpTo(S, n) == UNION {[1 .. k -> S] : k \in 0 .. n}

\* what is handed to BinaryClassifierData(data): a list, a single-pass
\* iterator over the same points, or a BinaryClassifierData built from them
Inputs == [kind : {"list", "iter", "bcd"}, points : SeqsUpTo(RawPoints, MaxPoints)]

\* ----- BinaryClassifierData.__init__ -----

\* _normalize_point: (score, label > 0)
_normalize_point(point) == <<point[1], point[2] > 0>>

\* tuple comparison of normalized points: by score, then False before True
PointLess(a, b) == a[1] < b[1] \/ (a[1] = b[1] /\ ~a[2] /\ b[2])

\* sorted(...) of normalized points, by insertion
RECURSIVE InsertPoint(_, _)
InsertPoint(x, s) ==
    IF s = <<>> THEN <<x>>
    ELSE IF PointLess(x, Head(s)) THEN <<x>> \o s
    ELSE <<Head(s)>> \o InsertPoint(x, Tail(s))

RECURSIVE sorted_points(_)
sorted_points(s) ==
    IF s = <<>> THEN <<>> ELSE InsertPoint(Head(s), sorted_points(Tail(s)))

NormalizeAll(points) == [i \in 1 .. Len(points) |-> _normalize_point(points[i])]

\* self.data after line 214-217
StoredData(in) == sorted_points(NormalizeAll(in.points))

\* a stored label read as a number: True is 1 and False is 0
BoolAsInt(b) == IF b THEN 1 ELSE 0

\* what `for point in data` sees on line 219, after line 217 has already
\* iterated over data once: a list is iterated again, an iterator is
\* exhausted, a BinaryClassifierData is indexed point by point (__getitem__)
\* and gives its stored, normalized points
SecondPass(in) ==
    CASE in.kind = "list" -> in.points
      [] in.kind = "iter" -> <<>>
      [] in.kind = "bcd" ->
           [i \in 1 .. Len(in.points) |->
               <<StoredData(in)[i][1], BoolAsInt(StoredData(in)[i][2])>>]

\* sum(point[1] > 0 for point in ...)
RECURSIVE CountPositive(_)
CountPositive(s) ==
    IF s = <<>> THEN 0
    ELSE (IF Head(s)[2] > 0 THEN 1 ELSE 0) + CountPositive(Tail(s))

TotalPositives(in) == CountPositive(SecondPass(in))
TotalNegatives(in) == Len(StoredData(in)) - TotalPositives(in)

\* ----- BinaryConfusionMatrix -----

\* BinaryConfusionMatrix(tp=.., fp=.., fn=.., tn=..), line 34
Counts(tp, fp, fn, tn) == [tp |-> tp, fp |-> fp, fn |-> fn, tn |-> tn]

\* the arguments given as `data`: None, a list of rows, or another matrix
NoData == [kind |-> "none"]
GridArg(rows) == [kind |-> "grid", rows |-> rows]
MatrixArg(m) == [kind |-> "matrix", m |-> m]

\* the data property: [[tn, fn], [fp, tp]]
data_get(m) == <<<<m.tn, m.fn>>, <<m.fp, m.tp>>>>

\* the data setter on a list of rows, lines 50-54
SetRows(m, rows) ==
    IF Len(rows) # 2 THEN [raised |-> TRUE, m |-> m]
    ELSE IF \E i \in 1 .. Len(rows) : Len(rows[i]) # 2 THEN [raised |-> TRUE, m |-> m]
    ELSE [raised |-> FALSE,
          m |-> [tn |-> rows[1][1], fn |-> rows[1][2],
                 fp |-> rows[2][1], tp |-> rows[2][2]]]

\* the data setter: a matrix is replaced by its grid (lines 46-48); None has
\* no len(), which raises as well
data_set(m, arg) ==
    CASE arg.kind = "matrix" -> SetRows(m, data_get(arg.m))
      [] arg.kind = "grid" -> SetRows(m, arg.rows)
      [] arg.kind = "none" -> [raised |-> TRUE, m |-> m]

\* `if data:` : None and the empty list are false, a matrix object is true
Truthy(arg) ==
    CASE arg.kind = "none" -> FALSE
      [] arg.kind = "grid" -> Len(arg.rows) # 0
      [] arg.kind = "matrix" -> TRUE

\* BinaryConfusionMatrix.__init__: the counts, then the setter if `data`
NewConfusionMatrix(arg, tp, fp, fn, tn) ==
    IF Truthy(arg) THEN data_set(Counts(tp, fp, fn, tn), arg)
    ELSE [raised |-> FALSE, m |-> Counts(tp, fp, fn, tn)]

\* ----- get_confusion_matrix -----

\* bisect_left(a, x) on a[lo:hi], 0-based as in Python
RECURSIVE bisect_left(_, _, _, _)
bisect_left(a, x, lo, hi) ==
    IF lo < hi
    THEN LET mid == (lo + hi) \div 2
         IN IF PointLess(a[mid + 1], x) THEN bisect_left(a, x, mid + 1, hi)
            ELSE bisect_left(a, x, lo, mid)
    ELSE lo

\* for _, is_pos in rows: row[is_pos] += 1, from row = [0, 0]
RECURSIVE Tally(_)
Tally(rows) ==
    IF rows = <<>> THEN <<0, 0>>
    ELSE LET rest == Tally(Tail(rows))
         IN IF Head(rows)[2] THEN <<rest[1], rest[2] + 1>> ELSE <<rest[1] + 1, rest[2]>>

get_confusion_matrix(d, total_pos, total_neg, threshold) ==
    LET n == Len(d)
        idx == bisect_left(d, <<threshold, FALSE>>, 0, n)
        result ==
            IF idx <= n \div 2
            THEN LET row0 == Tally(SubSeq(d, 1, idx))
                 IN <<row0, <<total_neg - row0[1], total_pos - row0[2]>>>>
            ELSE LET row1 == Tally(SubSeq(d, idx + 1, n))
                 IN <<<<total_neg - row1[1], total_pos - row1[2]>>, row1>>
    IN NewConfusionMatrix(GridArg(result), 0, 0, 0, 0).m

\* ----- iter_confusion_matrices: the thresholds -----

\* the thresholds argument: None, an integer n, or an explicit collection
NoThresholds == [kind |-> "none"]
Sources ==
    {NoThresholds}
      \cup {[kind |-> "int", n |-> n] : n \in 0 .. MaxCount}
      \cup {[kind |-> "coll", items |-> s] : s \in SeqsUpTo(ThrVals, MaxThr)}

\* lines 282-286: the list before it is deduplicated and sorted
RawThresholds(d, src) ==
    CASE src.kind = "none" -> [i \in 1 .. Len(d) |-> d[i][1]]
      [] src.kind = "int" -> [i \in 1 .. src.n |-> ((i - 1) * Unit) \div src.n]
      [] src.kind = "coll" -> src.items

\* set(thresholds)
set_of(s) == {s[i] : i \in 1 .. Len(s)}

\* sorted(S) of a set of numbers
RECURSIVE sorted_set(_)
sorted_set(S) ==
    IF S = {} THEN <<>>
    ELSE LET least == CHOOSE x \in S : \A y \in S : x <= y
         IN <<least>> \o sorted_set(S \ {least})

\* line 287 without set(): the list is sorted, repeated thresholds are kept
RECURSIVE SortedKeepingRepeats(_)
SortedKeepingRepeats(s) ==
    IF s = <<>> THEN <<>>
    ELSE LET k == CHOOSE i \in 1 .. Len(s) : \A j \in 1 .. Len(s) : s[i] <= s[j]
         IN <<s[k]>> \o SortedKeepingRepeats(SubSeq(s, 1, k - 1) \o SubSeq(s, k + 1, Len(s)))

\* line 287 without sorted(): repeats are dropped, the given order is kept
RECURSIVE DedupKeepingOrder(_)
DedupKeepingOrder(s) ==
    IF s = <<>> THEN <<>>
    ELSE LET front == DedupKeepingOrder(SubSeq(s, 1, Len(s) - 1))
         IN IF s[Len(s)] \in set_of(front) THEN front ELSE Append(front, s[Len(s)])

\* line 287: thresholds = sorted(set(thresholds))
SortedThresholds(s) == sorted_set(set_of(s))

\* ----- iter_confusion_matrices: the cursor -----

\* lines 304-317 with the bookkeeping of the other cell left out
MovePointOneSided(m, is_pos) ==
    IF is_pos THEN [m EXCEPT !.tp = @ - 1] ELSE [m EXCEPT !.tn = @ + 1]

\* lines 304-317: one data point falls below the threshold
MovePoint(m, is_pos) ==
    IF is_pos THEN [m EXCEPT !.tp = @ - 1, !.fn = @ + 1]
    ELSE [m EXCEPT !.tn = @ + 1, !.fp = @ - 1]

\* lines 300-318: the while loop for one threshold, from row_idx
RECURSIVE AdvanceCursor(_, _, _, _)
AdvanceCursor(d, m, idx, threshold) ==
    IF idx < Len(d) /\ ~(d[idx + 1][1] >= threshold)
    THEN AdvanceCursor(d, MovePoint(m, d[idx + 1][2]), idx + 1, threshold)
    ELSE [m |-> m, row_idx |-> idx]

\* ----- the state -----

VARIABLES
    pc,               \* where the caller is: "new", "ready", "first" (the sweep
                      \* is suspended at line 296), "loop" (suspended at line
                      \* 319), "done", "returned", "matrix"
    input,            \* what BinaryClassifierData is constructed from
    data,             \* self.data
    total_positives,  \* self.total_positives
    total_negatives,  \* self.total_negatives
    source,           \* the thresholds argument of the sweep
    thresholds,       \* the thresholds the for loop has not reached yet
    row_idx,          \* the cursor of the sweep
    heap,             \* the BinaryConfusionMatrix objects of the sweep, by identity
    result,           \* the identity of the running matrix
    yielded,          \* the pairs yielded so far: the threshold, the identity of
                      \* the matrix, and its counts when it was yielded
    returned,         \* what get_confusion_matrix returned, if it was called
    cm,               \* a BinaryConfusionMatrix whose grid is set
    call              \* the last constructor or setter call on a grid

vars == <<pc, input, data, total_positives, total_negatives, source, thresholds,
          row_idx, heap, result, yielded, returned, cm, call>>

datasetVars == <<input, data, total_positives, total_negatives>>
sweepVars == <<source, thresholds, row_idx, heap, result, yielded>>
matrixVars == <<cm, call>>

NoMatrix == Counts(0, 0, 0, 0)

Init ==
    /\ pc = "new"
    /\ input \in Inputs
    /\ data = <<>>
    /\ total_positives = 0
    /\ total_negatives = 0
    /\ source = NoThresholds
    /\ thresholds = <<>>
    /\ row_idx = 0
    /\ heap = <<>>
    /\ result = 0
    /\ yielded = <<>>
    /\ returned = <<>>
    /\ cm = NoMatrix
    /\ call = <<>>

\* BinaryClassifierData(input), lines 211-220
Construct ==
    /\ pc = "new"
    /\ pc' = "ready"
    /\ data' = StoredData(input)
    /\ total_positives' = TotalPositives(input)
    /\ total_negatives' = TotalNegatives(input)
    /\ UNCHANGED <<input, sweepVars, returned, matrixVars>>

\* get_confusion_matrix(threshold) called on the dataset
GetConfusionMatrix(threshold) ==
    /\ pc = "ready"
    /\ pc' = "returned"
    /\ returned' = <<[threshold |-> threshold,
                      m |-> get_confusion_matrix(data, total_positives,
                                                 total_negatives, threshold)]>>
    /\ UNCHANGED <<datasetVars, sweepVars, matrixVars>>

\* iter_confusion_matrices(src) up to its first yield or its return,
\* lines 279-296
StartSweep(src) ==
    /\ pc = "ready"
    /\ source' = src
    /\ LET resolved == SortedThresholds(RawThresholds(data, src))
           all == Append(resolved, Inf)
           first == get_confusion_matrix(data, total_positives, total_negatives,
                                         Head(all))
       IN IF Len(data) = 0 \/ resolved = <<>>
          THEN /\ pc' = "done"
               /\ UNCHANGED <<thresholds, heap, result, yielded>>
          ELSE /\ pc' = "first"
               /\ thresholds' = Tail(all)
               /\ heap' = <<first>>
               /\ result' = 1
               /\ yielded' = <<[threshold |-> Head(all), ref |-> 1, m |-> first]>>
    /\ UNCHANGED <<datasetVars, row_idx, returned, matrixVars>>

\* one turn of the for loop from the cursor `from`, lines 299-319: the
\* running matrix is updated in place and a copy of it is yielded
LoopTurn(from) ==
    LET threshold == Head(thresholds)
        moved == AdvanceCursor(data, heap[result], from, threshold)
        copy == NewConfusionMatrix(MatrixArg(moved.m), 0, 0, 0, 0).m
    IN /\ thresholds' = Tail(thresholds)
       /\ row_idx' = moved.row_idx
       /\ heap' = Append([heap EXCEPT ![result] = moved.m], copy)
       /\ yielded' = Append(yielded, [threshold |-> threshold,
                                      ref |-> Len(heap) + 1, m |-> copy])
       /\ pc' = "loop"
       /\ UNCHANGED <<datasetVars, source, result, returned, matrixVars>>

\* the sweep is resumed after its first yield: line 298, then the loop
ResumeFirst ==
    /\ pc = "first"
    /\ LoopTurn(0)

\* the sweep is resumed after a yield of the loop and yields again
ResumeLoop ==
    /\ pc = "loop"
    /\ thresholds # <<>>
    /\ LoopTurn(row_idx)

\* the sweep is resumed after its last yield: the for loop ends
SweepEnd ==
    /\ pc = "loop"
    /\ thresholds = <<>>
    /\ pc' = "done"
    /\ UNCHANGED <<datasetVars, sweepVars, returned, matrixVars>>

Next ==
    \/ Construct
    \/ \E threshold \in LookupVals \cup {Inf} : GetConfusionMatrix(threshold)
    \/ \E src \in Sources : StartSweep(src)
    \/ ResumeFirst
    \/ ResumeLoop
    \/ SweepEnd

Spec == Init /\ [][Next]_vars

\* ----- BinaryConfusionMatrix on its own: the constructor and the setter -----

\* a list of rows with the given row lengths; the cells are numbered from
\* base so that no two cells of a grid are equal
GridOfShape(shape, base) ==
    [i \in 1 .. Len(shape) |-> [j \in 1 .. shape[i] |-> base + MaxDim * (i - 1) + j]]

Grids == {GridOfShape(shape, base) : shape \in SeqsUpTo(0 .. MaxDim, MaxDim),
                                      base \in 0 .. 1}

DataArgs ==
    {NoData}
      \cup {GridArg(g) : g \in Grids}
      \cup {MatrixArg(Counts(a, b, b, a)) : a \in 0 .. 1, b \in 2 .. 3}

InitMatrix ==
    /\ pc = "matrix"
    /\ input = [kind |-> "list", points |-> <<>>]
    /\ data = <<>>
    /\ total_positives = 0
    /\ total_negatives = 0
    /\ source = NoThresholds
    /\ thresholds = <<>>
    /\ row_idx = 0
    /\ heap = <<>>
    /\ result = 0
    /\ yielded = <<>>
    /\ returned = <<>>
    /\ \E tp \in 0 .. 1, fp \in 0 .. 1, fn \in 0 .. 1, tn \in 0 .. 1 :
          cm = Counts(tp, fp, fn, tn)
    /\ call = <<>>

\* BinaryConfusionMatrix(data=arg): a new object, or an exception and none
ConstructMatrix(arg) ==
    /\ pc = "matrix"
    /\ LET r == NewConfusionMatrix(arg, 0, 0, 0, 0)
       IN call' = <<[op |-> "init", arg |-> arg, raised |-> r.raised,
                     made |-> IF r.raised THEN <<>> ELSE <<r.m>>, before |-> cm]>>
    /\ UNCHANGED <<pc, datasetVars, sweepVars, returned, cm>>

\* cm.data = arg
SetData(arg) ==
    /\ pc = "matrix"
    /\ LET r == data_set(cm, arg)
       IN /\ cm' = r.m
          /\ call' = <<[op |-> "set", arg |-> arg, raised |-> r.raised,
                        made |-> <<>>, before |-> cm]>>
    /\ UNCHANGED <<pc, datasetVars, sweepVars, returned>>

NextMatrix ==
    \/ \E arg \in DataArgs : ConstructMatrix(arg)
    \/ \E arg \in DataArgs : SetData(arg)

SpecMatrix == InitMatrix /\ [][NextMatrix]_vars

\* ----- the properties -----

\* the counts of a dataset at a threshold, by their definition
Positives(d) == {i \in 1 .. Len(d) : d[i][2]}
Negatives(d) == {i \in 1 .. Len(d) : ~d[i][2]}
AtOrAbove(d, t) == {i \in 1 .. Len(d) : d[i][1] >= t}
Below(d, t) == {i \in 1 .. Len(d) : d[i][1] < t}

ExpectedCounts(d, t) ==
    [tp |-> Cardinality(Positives(d) \cap AtOrAbove(d, t)),
     fp |-> Cardinality(Negatives(d) \cap AtOrAbove(d, t)),
     fn |-> Cardinality(Positives(d) \cap Below(d, t)),
     tn |-> Cardinality(Negatives(d) \cap Below(d, t))]

Total(m) == m.tp + m.fp + m.tn + m.fn

NonNegative(m) == m.tp >= 0 /\ m.fp >= 0 /\ m.tn >= 0 /\ m.fn >= 0

Scores(d) == {d[i][1] : i \in 1 .. Len(d)}

SweepConsumed == pc = "done" /\ Len(data) > 0

\* every pair yielded so far carries the counts of its threshold
YieldedAsExpected ==
    \A i \in 1 .. Len(yielded) :
        yielded[i].m = ExpectedCounts(data, yielded[i].threshold)

\* C1: every pair (t, m) a sweep yields has, when it is yielded, the counts
\* that get_confusion_matrix(t) gives on the same dataset.
C1_YieldedEqualsLookup ==
    \A i \in 1 .. Len(yielded) :
        yielded[i].m = get_confusion_matrix(data, total_positives, total_negatives,
                                            yielded[i].threshold)

\* C2: every matrix a sweep has yielded, the first included, keeps the counts
\* it had when it was yielded, whatever the sweep does afterwards.
C2_YieldedAreSnapshots ==
    \A i \in 1 .. Len(yielded) : heap[yielded[i].ref] = yielded[i].m

\* C3: every matrix yielded by a sweep and every matrix returned by
\* get_confusion_matrix has tp + fp + tn + fn equal to the size of the dataset.
C3_CountsSumToN ==
    /\ \A i \in 1 .. Len(yielded) : Total(yielded[i].m) = Len(data)
    /\ \A i \in 1 .. Len(returned) : Total(returned[i].m) = Len(data)

\* a sweep that moved points of both labels below its thresholds has ended
C3_Witness ==
    /\ pc = "done"
    /\ Len(yielded) >= 3
    /\ yielded[Len(yielded)].m.tp < yielded[1].m.tp
    /\ yielded[Len(yielded)].m.tn > yielded[1].m.tn
    /\ Total(yielded[Len(yielded)].m) = Len(data)
    /\ YieldedAsExpected

\* C4: a fully consumed sweep of a non-empty dataset ends, whatever the
\* thresholds argument, with the threshold +Infinity and the matrix
\* tp = 0, fp = 0, tn = total_negatives, fn = total_positives.
C4_EndsAllNegative ==
    SweepConsumed =>
        /\ Len(yielded) > 0
        /\ yielded[Len(yielded)].threshold = Inf
        /\ yielded[Len(yielded)].m = Counts(0, 0, total_positives, total_negatives)

\* C5 as stated: with thresholds None the scores are not deduplicated, so k
\* points sharing a score give k pairs with that threshold, one pair per data
\* point and the terminal pair; an integer or a collection is deduplicated
\* and sorted ascending.
C5_NoneKeepsRepeats ==
    SweepConsumed =>
        IF source.kind = "none"
        THEN /\ Len(yielded) = Len(data) + 1
             /\ \A s \in Scores(data) :
                    Cardinality({i \in 1 .. Len(yielded) : yielded[i].threshold = s})
                        = Cardinality({j \in 1 .. Len(data) : data[j][1] = s})
        ELSE \A i, j \in 1 .. Len(yielded) :
                 i < j => yielded[i].threshold < yielded[j].threshold

\* C5 amended: for every thresholds argument, None included, the thresholds
\* are deduplicated and sorted ascending; with None a sweep yields one pair
\* per distinct score of the dataset and the terminal pair, however many
\* points share a score.
C5_AllSourcesDeduplicated ==
    SweepConsumed =>
        /\ \A i, j \in 1 .. Len(yielded) :
               i < j => yielded[i].threshold < yielded[j].threshold
        /\ source.kind = "none" =>
               /\ Len(yielded) = Cardinality(Scores(data)) + 1
               /\ \A s \in Scores(data) :
                      \E i \in 1 .. Len(yielded) : yielded[i].threshold = s

\* a sweep with thresholds None over a dataset in which points share a score
C5_Witness ==
    /\ SweepConsumed
    /\ source.kind = "none"
    /\ Cardinality(Scores(data)) < Len(data)
    /\ Cardinality(Scores(data)) >= 2
    /\ Len(yielded) = Cardinality(Scores(data)) + 1
    /\ YieldedAsExpected

IsTwoByTwo(rows) == Len(rows) = 2 /\ \A i \in 1 .. Len(rows) : Len(rows[i]) = 2

\* C6: a grid that is not 2 rows of 2 columns makes the constructor and the
\* setter fail; the constructor makes no matrix, the setter leaves the counts
\* of the matrix as they were.
C6_BadGridFails ==
    \A i \in 1 .. Len(call) :
        (call[i].arg.kind = "grid" /\ ~IsTwoByTwo(call[i].arg.rows)) =>
            /\ call[i].raised
            /\ call[i].op = "init" => call[i].made = <<>>
            /\ call[i].op = "set" => cm = call[i].before

\* C7: get_confusion_matrix(t) counts the positive and the negative points
\* with score >= t as tp and fp, those with score < t as fn and tn, in
\* either branch.
C7_LookupCounts ==
    \A i \in 1 .. Len(returned) :
        returned[i].m = ExpectedCounts(data, returned[i].threshold)

\* C8: after construction from a list, an iterator or another dataset,
\* total_positives is the number of stored points labelled True,
\* total_negatives the number labelled False, and they add up to the length.
C8_TotalsCountLabels ==
    pc \notin {"new", "matrix"} =>
        /\ total_positives = Cardinality(Positives(data))
        /\ total_negatives = Cardinality(Negatives(data))
        /\ total_positives + total_negatives = Len(data)

\* C9: the four counts of every matrix returned by get_confusion_matrix or
\* yielded by a sweep are non-negative.
C9_CountsNonNegative ==
    /\ \A i \in 1 .. Len(yielded) : NonNegative(yielded[i].m)
    /\ \A i \in 1 .. Len(returned) : NonNegative(returned[i].m)

\* C10: along the pairs one sweep yields the thresholds ascend, and from one
\* pair to the next tp and fp do not increase, tn and fn do not decrease.
C10_Monotone ==
    \A i \in 1 .. Len(yielded) - 1 :
        /\ yielded[i].threshold < yielded[i + 1].threshold
        /\ yielded[i + 1].m.tp <= yielded[i].m.tp
        /\ yielded[i + 1].m.fp <= yielded[i].m.fp
        /\ yielded[i + 1].m.tn >= yielded[i].m.tn
        /\ yielded[i + 1].m.fn >= yielded[i].m.fn

\* a sweep over an explicit collection given out of order, in which tp fell
\* at one step and tn rose at another
C10_Witness ==
    /\ pc = "done"
    /\ source.kind = "coll"
    /\ Len(source.items) = 2
    /\ source.items[1] > source.items[2]
    /\ Len(yielded) = 3
    /\ yielded[2].m.tp < yielded[1].m.tp
    /\ yielded[3].m.tn > yielded[2].m.tn
    /\ YieldedAsExpected

====
